---- MODULE Spec2Model ----
(***************************************************************************)
(* Move tree of the interactive PGN editor: app.js (tree, cursor, move     *)
(* input, navigation, rendering) together with the variation controls of   *)
(* pgn-training.js (promote, delete, single-level undo), which reach the   *)
(* tree through the window.JC facade.                                      *)
(*                                                                         *)
(* The rules engine (chess.js) is external.  A position is abstracted as   *)
(* the sequence of SAN moves that leads to it from the start position, so  *)
(* that applying a move to a position is a real computation and the side   *)
(* to move is the parity of the length.                                    *)
(*                                                                         *)
(* render() is a function of the tree and the cursor: its output is the    *)
(* sequence of tokens it leaves in #moves.  The usable / unusable state of *)
(* the promote, delete and comment controls is kept apart from their       *)
(* handlers: a handler acts whenever it is invoked.                        *)
(*                                                                         *)
(* The puzzle widgets live on pages of their own: the single puzzle and    *)
(* the remote puzzle pack of puzzle-engine.js, with their 150 ms reply     *)
(* timer, and the worksheet (src/unnamed/part_000).  Each has its own      *)
(* specification; a page that does not carry a widget leaves its state at  *)
(* NoWidget.                                                               *)
(***************************************************************************)
EXTENDS Integers, Sequences, FiniteSets, TLC

\* ------------------------------------------------------------------ bounds
MaxNodes == 4          \* nodes ever created, root included (ID stays <= MaxNodes + 1)
MaxVars == 2           \* undo is not pressed once it would make a vars array longer than this
MaxCommentId == 2      \* the user writes comments on the nodes n2 .. n<MaxCommentId> only

\* ------------------------------------------------------------- vocabulary
Null == 0              \* null, for node references
NoSan == "-"           \* null, where a SAN string is expected
NoDrop == "none"       \* null, where a from/to pair is expected
root == 1              \* const root = new Node(null, null, START_FEN): id "n1"
START_FEN == << >>     \* chess.fen() of a fresh engine

PieceDrops == {"Nf3", "d4"}      \* drags of a piece that is not a pawn reaching the last rank
PawnDrop   == "a7a8"             \* drag of the a7 pawn to a8
BadDrop    == "zz"               \* a drag the engine rejects
Drops      == PieceDrops \cup {PawnDrop, BadDrop}
PromoPieces == {"q"}             \* data-p of the promotion dialog entry the user picks
CommentTexts == {"", "good", " good "}   \* what the user leaves in the comment editor

VARIABLES
  nodes,             \* id -> Node, for every node ever constructed (1 .. ID-1)
  ID,                \* let ID: next id to hand out
  cursor,            \* let cursor
  pendingPromotion,  \* let pendingPromotion: NoDrop or the from/to of the pawn drag
  promoShown,        \* promo.style.display = "flex"
  chess,             \* position loaded in the engine `chess`
  board,             \* position shown by the board widget
  undoAction,        \* pgn-training.js: let undoAction
  rendered,          \* nodes that own a clickable span in #moves
  buttons,           \* which of the promote / delete / comment controls are usable
  localPuzzle,       \* puzzle-engine.js: the closure state of renderLocalPuzzle
  remotePack,        \* puzzle-engine.js: the closure state of initRemotePGNPackLazy
  worksheet          \* part_000: ws._puzzles, ws._page, REPORT and the boards of the page

vars == << nodes, ID, cursor, pendingPromotion, promoShown, chess, board,
           undoAction, rendered, buttons >>

\* the state of the puzzle widgets, and of a page as a whole
widgets == << localPuzzle, remotePack, worksheet >>
allvars == << vars, widgets >>

\* a widget that is not on the page
NoWidget == [on |-> FALSE]

\* ----------------------------------------------------------- rules engine
\* t.turn()
Turn(pos) == IF Len(pos) % 2 = 0 THEN "w" ELSE "b"

\* the a7 pawn is still on the board: no promotion happened on the way to pos
PawnPresent(pos) == \A i \in 1..Len(pos) : pos[i] \notin {"a8=Q", "a8=N"}

\* t.get(from)?.type === "p" && (to[1] === "8" || to[1] === "1")
IsPawnToLastRank(pos, d) == d = PawnDrop /\ PawnPresent(pos)

\* t.move({from, to, promotion}): the SAN of the move, or NoSan when illegal.
\* The a7 pawn is White's, so its advance is legal only with White to move.
EngineMove(pos, d, promotion) ==
  IF d \in PieceDrops THEN d
  ELSE IF d = PawnDrop /\ PawnPresent(pos) /\ Turn(pos) = "w"
       THEN (IF promotion = "n" THEN "a8=N" ELSE "a8=Q")
       ELSE NoSan

\* t.fen() after a legal move
EngineFen(pos, san) == Append(pos, san)

SANS == PieceDrops \cup {"a8=Q", "a8=N"}

\* --------------------------------------------------------------- the tree
\* class Node { constructor(san, parent, fen) }
Node(san, parent, fen) ==
  [san |-> san, parent |-> parent, fen |-> fen,
   next |-> Null, vars |-> << >>, comment |-> ""]

Ids == 1..(ID - 1)

RECURSIVE FilterOut(_, _)
\* arr.filter(v => v !== n)
FilterOut(s, n) ==
  IF s = << >> THEN << >>
  ELSE IF Head(s) = n THEN FilterOut(Tail(s), n)
       ELSE << Head(s) >> \o FilterOut(Tail(s), n)

Range(s) == { s[i] : i \in 1..Len(s) }

\* isVariation without the comparison with parent.next
isVariation_hasParent(ns, n) ==
  n # Null /\ ns[n].parent # Null

\* isVariation(node): node && node.parent && node.parent.next !== node
isVariation(ns, n) ==
  n # Null /\ ns[n].parent # Null /\ ns[ns[n].parent].next # n

\* ----------------------------------------------------------------- render
RECURSIVE Chain(_, _)
\* the nodes met by `while (cur) { ...; cur = cur.next }` started at n
Chain(ns, n) == IF n = Null THEN {} ELSE {n} \cup Chain(ns, ns[n].next)

\* renderSeq(cur) calls renderVars(cur.parent), which calls renderSeq(v) for
\* every v of cur.parent.vars, which calls renderVars(v.parent) again: as soon
\* as the walk from root.next meets a node whose parent has variations the
\* recursion never returns and the engine throws RangeError out of render().
RenderThrows(ns) ==
  \E c \in Chain(ns, ns[root].next) : ns[ns[c].parent].vars # << >>

\* the spans left in #moves by render(): movesDiv is emptied first and the
\* freshly built mainline div is appended only after renderSeq returned
RenderedNodes(ns) ==
  IF RenderThrows(ns) THEN {} ELSE Chain(ns, ns[root].next)

\* what render() writes: text nodes that carry a move number, move spans,
\* comment spans and the marker of a call that never returns.  The " "
\* text node behind every move span is left out.
NumberTok(txt)     == [kind |-> "number", node |-> Null, text |-> txt, active |-> FALSE]
MoveTok(n, txt, a) == [kind |-> "move", node |-> n, text |-> txt, active |-> a]
CommentTok(n, txt) == [kind |-> "comment", node |-> n, text |-> txt, active |-> FALSE]
RangeError         == [kind |-> "RangeError", node |-> Null, text |-> "", active |-> FALSE]

\* figSAN(s): the piece letter in front and the one behind "=" become
\* figurines, written here as the letter between bars
figSAN(san) ==
  CASE san = "Nf3"  -> "|N|f3"
    [] san = "a8=Q" -> "a8=|Q|"
    [] san = "a8=N" -> "a8=|N|"
    [] OTHER        -> san

\* renderVars(container, parent, moveNo, side): nothing without variations.
\* With variations the first v of parent.vars is handed to renderSeq(v, span,
\* moveNo, side, ...), whose first iteration calls renderVars(span, v.parent,
\* moveNo, side) with v.parent = parent: the same call again, until the
\* stack is exhausted.
renderVars(ns, parent, moveNo, side) ==
  IF parent = Null \/ ns[parent].vars = << >> THEN << >> ELSE << RangeError >>

RECURSIVE renderSeq(_, _, _, _, _, _)
\* renderSeq(n, container, moveNo, side, suppressFirstMoveNumber), with the
\* cursor that appendMove compares each node with
renderSeq(ns, cur, n, m, s, suppress) ==
  IF n = Null THEN << >>
  ELSE LET num  == IF s = "w" /\ ~suppress
                   THEN << NumberTok(ToString(m) \o ". ") >> ELSE << >>
           move == << MoveTok(n, figSAN(ns[n].san), n = cur) >>
           cmt  == IF ns[n].comment # ""
                   THEN << CommentTok(n, "{" \o ns[n].comment \o "} ") >>
                   ELSE << >>
           alts == renderVars(ns, ns[n].parent, m, s)
           rest == IF s = "w"
                   THEN renderSeq(ns, cur, ns[n].next, m, "b", FALSE)
                   ELSE renderSeq(ns, cur, ns[n].next, m + 1, "w", suppress)
       IN num \o move \o cmt \o alts \o rest

\* what renderSeq(root.next, main, 1, "w", false) builds in div.mainline
MainlineTokens(ns, cur) == renderSeq(ns, cur, ns[root].next, 1, "w", FALSE)

\* render() that appends to what #moves already holds
render_noClear(old, ns, cur) ==
  LET main == MainlineTokens(ns, cur)
  IN IF RangeError \in Range(main) THEN old ELSE old \o main

\* render(): #moves afterwards, old being its content before.  innerHTML is
\* emptied first; div.mainline is appended unless renderSeq threw.
render(old, ns, cur) ==
  LET main == MainlineTokens(ns, cur)
  IN IF RangeError \in Range(main) THEN << >> ELSE main

\* what #moves holds between two handlers: every handler that changes the
\* tree or the cursor calls render() before it returns
moves == render(<< >>, nodes, cursor)

\* ------------------------------------------------------------- applyMove
\* `cursor.san === san` written for `cursor.next.san === san`
IsReplay_ownSan(ns, cur, san) == ns[cur].next # Null /\ ns[cur].san = san

\* cursor.next && cursor.next.san === san
IsReplay(ns, cur, san) == ns[cur].next # Null /\ ns[ns[cur].next].san = san

\* the test of turnAfterMove inverted
TakesMainline_black(turnAfterMove) == turnAfterMove = "b"

\* turnAfterMove === "w": the new node takes the mainline
TakesMainline(turnAfterMove) == turnAfterMove = "w"

\* the node applyMove ends on
ApplyTarget(ns, id, cur, san) ==
  IF IsReplay(ns, cur, san) THEN ns[cur].next ELSE id

\* a first move filed under vars instead of next
ExtendMainline_asVar(ns, cur, id) == [ns EXCEPT ![cur].vars = Append(@, id)]

\* `root.next = n` written for `cursor.next = n`
ExtendMainline_atRoot(ns, cur, id) == [ns EXCEPT ![root].next = id]

\* cursor.next = n
ExtendMainline(ns, cur, id) == [ns EXCEPT ![cur].next = id]

\* the new node takes the mainline and the old mainline child is dropped
DemoteMainline_drop(ns, cur, id) ==
  [ns EXCEPT ![cur].next = id]

\* cursor.vars.push(cursor.next); cursor.next = n
DemoteMainline(ns, cur, id) ==
  [ns EXCEPT ![cur].vars = Append(@, ns[cur].next), ![cur].next = id]

\* unshift written for push
AppendVariation_front(ns, cur, id) == [ns EXCEPT ![cur].vars = << id >> \o @]

\* cursor.vars.push(n)
AppendVariation(ns, cur, id) == [ns EXCEPT ![cur].vars = Append(@, id)]

\* the tree after applyMove(san, fen, turnAfterMove) with the given cursor
ApplyTree(ns, id, cur, san, fen, turnAfterMove) ==
  IF IsReplay(ns, cur, san)
  THEN [ns EXCEPT ![ns[cur].next].fen = fen]
  ELSE LET withN == (id :> Node(san, cur, fen)) @@ ns
       IN IF ns[cur].next # Null
          THEN IF TakesMainline(turnAfterMove)
               THEN DemoteMainline(withN, cur, id)
               ELSE AppendVariation(withN, cur, id)
          ELSE ExtendMainline(withN, cur, id)

\* rebuildTo that redraws the board and leaves the engine alone
rebuildTo_boardOnly(ns, n) ==
  /\ chess' = chess
  /\ board' = ns[n].fen

\* rebuildTo(node, animate): chess.load(node.fen); board.position(chess.fen())
rebuildTo(ns, n) ==
  /\ chess' = ns[n].fen
  /\ board' = ns[n].fen

\* function applyMove(san, fen, turnAfterMove)
applyMove(san, fen, turnAfterMove) ==
  LET created == ~IsReplay(nodes, cursor, san)
      n       == ApplyTarget(nodes, ID, cursor, san)
      ns      == ApplyTree(nodes, ID, cursor, san, fen, turnAfterMove)
  IN /\ created => ID <= MaxNodes
     /\ nodes' = ns
     /\ ID' = IF created THEN ID + 1 ELSE ID
     /\ cursor' = n
     /\ rebuildTo(ns, n)
     /\ rendered' = RenderedNodes(ns)

\* ------------------------------------------------------------ move input
\* the widget lets the user drag only a piece it shows: the a7 pawn can be
\* picked up while the board does not already show it on a8
CanDrag(d) ==
  IF d = PawnDrop /\ Len(board) > 0 THEN board[Len(board)] # PawnDrop ELSE TRUE

\* function onDrop(from, to)
onDropBody(d) ==
  IF IsPawnToLastRank(chess, d)
  THEN /\ pendingPromotion' = d
       /\ promoShown' = TRUE
       /\ board' = Append(board, d)     \* no "snapback": the widget keeps the pawn on a8
       /\ UNCHANGED << nodes, ID, cursor, chess, undoAction, rendered, buttons >>
  ELSE LET m == EngineMove(chess, d, "q")
       IN IF m = NoSan
          THEN UNCHANGED << nodes, ID, cursor, pendingPromotion, promoShown,
                               chess, board, undoAction, rendered, buttons >>
          ELSE /\ applyMove(m, EngineFen(chess, m),
                            Turn(EngineFen(chess, m)))
               /\ UNCHANGED << pendingPromotion, promoShown, undoAction, buttons >>

\* a drag the widget allows, ended on a square: the widget calls onDrop
onDrop(d) ==
  /\ CanDrag(d)
  /\ onDropBody(d)

\* promo.onclick on an entry that carries data-p
promoClick(pc) ==
  /\ promoShown
  /\ promoShown' = FALSE
  /\ pendingPromotion' = NoDrop
  /\ LET m == EngineMove(chess, pendingPromotion, pc)
     IN IF m = NoSan
        THEN UNCHANGED << nodes, ID, cursor, chess, board, undoAction, rendered,
                             buttons >>
        ELSE /\ applyMove(m, EngineFen(chess, m),
                          Turn(EngineFen(chess, m)))
             /\ UNCHANGED << undoAction, buttons >>

\* ------------------------------------------------------------ navigation
\* cursor = n; rebuildTo(n, true); render(); syncCommentEditor()
moveCursor(n) ==
  /\ cursor' = n
  /\ rebuildTo(nodes, n)
  /\ rendered' = RenderedNodes(nodes)
  /\ UNCHANGED << nodes, ID, pendingPromotion, promoShown, undoAction >>

\* an early `return` of a handler
skip == UNCHANGED vars

\* end that does not walk the mainline
MainlineEnd_first(ns, n) == n

RECURSIVE MainlineEnd(_, _)
\* let n = root; while (n.next) n = n.next;
MainlineEnd(ns, n) == IF ns[n].next = Null THEN n ELSE MainlineEnd(ns, ns[n].next)

btnStart == moveCursor(root) /\ UNCHANGED buttons
btnEnd   == moveCursor(MainlineEnd(nodes, root)) /\ UNCHANGED buttons
btnPrev  == IF nodes[cursor].parent = Null THEN skip
            ELSE moveCursor(nodes[cursor].parent) /\ UNCHANGED buttons
btnNext  == IF nodes[cursor].next = Null THEN skip
            ELSE moveCursor(nodes[cursor].next) /\ UNCHANGED buttons

\* updateButtonStates() / updateStates(): promote and delete are usable on a
\* variation, the comment control off root
updateStates(ns, n) ==
  [promote |-> isVariation(ns, n), delete |-> isVariation(ns, n),
   comment |-> n # root]

\* span.onclick of a move span built by appendMove; the click then reaches
\* the document listener of the controls, whose setTimeout(updateStates, 0)
\* runs before the next user event
gotoNode(n) ==
  /\ n \in rendered
  /\ moveCursor(n)
  /\ buttons' = updateStates(nodes, n)

\* --------------------------------------------- variation controls and undo
NoUndo == [type |-> "none", parent |-> Null, node |-> Null, previousMain |-> Null]

\* promote that pushes the old mainline child at the end of p.vars
PromoteTree_push(ns, n) ==
  LET p       == ns[n].parent
      oldMain == ns[p].next
      kept    == FilterOut(ns[p].vars, n)
  IN [ns EXCEPT ![p].vars = IF oldMain # Null THEN kept \o << oldMain >> ELSE kept,
                ![p].next = n]

\* promote that drops the old mainline child
PromoteTree_noDemote(ns, n) ==
  LET p == ns[n].parent
  IN [ns EXCEPT ![p].vars = FilterOut(@, n), ![p].next = n]

\* promote that leaves n in p.vars
PromoteTree_noFilter(ns, n) ==
  LET p       == ns[n].parent
      oldMain == ns[p].next
  IN [ns EXCEPT ![p].vars = IF oldMain # Null THEN << oldMain >> \o @ ELSE @,
                ![p].next = n]

\* p.vars = p.vars.filter(v => v !== n); if (oldMain) p.vars.unshift(oldMain);
\* p.next = n
PromoteTree(ns, n) ==
  LET p       == ns[n].parent
      oldMain == ns[p].next
      kept    == FilterOut(ns[p].vars, n)
  IN [ns EXCEPT ![p].vars = IF oldMain # Null THEN << oldMain >> \o kept ELSE kept,
                ![p].next = n]

\* delete that empties p.vars
DeleteTree_all(ns, n) ==
  [ns EXCEPT ![ns[n].parent].vars = << >>]

\* p.vars = p.vars.filter(v => v !== n)
DeleteTree(ns, n) ==
  [ns EXCEPT ![ns[n].parent].vars = FilterOut(@, n)]

\* undo of a promote that reads a field the record does not have and
\* leaves the parent without mainline child
UndoTree_noMain(ns, a) ==
  IF a.type = "promote"
  THEN [ns EXCEPT ![a.parent].next = Null,
                  ![a.parent].vars =
                     << a.node >> \o FilterOut(ns[a.parent].vars, a.previousMain)]
  ELSE IF a.type = "delete"
  THEN [ns EXCEPT ![a.parent].vars = Append(@, a.node)]
  ELSE ns

\* the tree after the undo of record a
UndoTree(ns, a) ==
  IF a.type = "promote"
  THEN [ns EXCEPT ![a.parent].next = a.previousMain,
                  ![a.parent].vars =
                     << a.node >> \o FilterOut(ns[a.parent].vars, a.previousMain)]
  ELSE IF a.type = "delete"
  THEN [ns EXCEPT ![a.parent].vars = Append(@, a.node)]
  ELSE ns

\* window.JC.setCursor(promoted.parent) / window.JC.setCursor(a.deleted)
UndoCursor(ns, a, cur) ==
  IF a.type = "promote" THEN ns[a.node].parent
  ELSE IF a.type = "delete" THEN a.node
  ELSE cur

\* delete that leaves the cursor on the deleted node
DeleteCursor_stays(ns, n) == n

\* window.JC.setCursor(p) of btnDelete.onclick, p = n.parent
DeleteCursor(ns, n) == ns[n].parent

\* window.JC.setCursor(n); window.JC.rebuildTo(n, true); window.JC.render()
JCshow(ns, n) ==
  /\ cursor' = n
  /\ rebuildTo(ns, n)
  /\ rendered' = RenderedNodes(ns)

\* btnPromote.onclick
btnPromote ==
  IF ~isVariation(nodes, cursor) THEN skip
  ELSE /\ undoAction' = [type |-> "promote", parent |-> nodes[cursor].parent,
                         node |-> cursor,
                         previousMain |-> nodes[nodes[cursor].parent].next]
       /\ nodes' = PromoteTree(nodes, cursor)
       /\ JCshow(nodes', cursor)
       /\ UNCHANGED << ID, pendingPromotion, promoShown, buttons >>

\* btnDelete.onclick
btnDelete ==
  IF ~isVariation(nodes, cursor) THEN skip
  ELSE /\ undoAction' = [type |-> "delete", parent |-> nodes[cursor].parent,
                         node |-> cursor, previousMain |-> Null]
       /\ nodes' = DeleteTree(nodes, cursor)
       /\ JCshow(nodes', DeleteCursor(nodes, cursor))
       /\ UNCHANGED << ID, pendingPromotion, promoShown, buttons >>

\* btnUndo.onclick; clearUndo() is its last statement and is reached only
\* when render() returned
btnUndo ==
  IF undoAction = NoUndo THEN skip
  ELSE /\ Len(UndoTree(nodes, undoAction)[undoAction.parent].vars) <= MaxVars
       /\ nodes' = UndoTree(nodes, undoAction)
       /\ JCshow(nodes', UndoCursor(nodes, undoAction, cursor))
       /\ undoAction' = IF RenderThrows(nodes') THEN undoAction ELSE NoUndo
       /\ UNCHANGED << ID, pendingPromotion, promoShown, buttons >>

\* String.prototype.trim on the texts of CommentTexts
trim(text) == IF text = " good " THEN "good" ELSE text

\* cursor.comment = commentEditor.value.trim()
CommentTree(ns, n, text) == [ns EXCEPT ![n].comment = trim(text)]

\* btnCommentSave.onclick: cursor.comment = commentEditor.value.trim(); render()
btnCommentSave(text) ==
  IF cursor = root THEN skip
  ELSE /\ cursor <= MaxCommentId
       /\ nodes' = CommentTree(nodes, cursor, text)
       /\ rendered' = RenderedNodes(nodes')
       /\ UNCHANGED << ID, cursor, pendingPromotion, promoShown, chess, board,
                       undoAction, buttons >>

\* ---------------------------------------------------------- specification
\* state of the editor once the DOMContentLoaded callbacks have run
InitEditor ==
  /\ nodes = (root :> Node(NoSan, Null, START_FEN))
  /\ ID = 2
  /\ cursor = root
  /\ pendingPromotion = NoDrop
  /\ promoShown = FALSE
  /\ chess = START_FEN
  /\ board = START_FEN
  /\ undoAction = NoUndo
  /\ rendered = {}
  /\ buttons = updateStates(nodes, root)

\* the editor page carries no puzzle widget
NoWidgets ==
  /\ localPuzzle = NoWidget
  /\ remotePack = NoWidget
  /\ worksheet = NoWidget

Init == InitEditor /\ NoWidgets

Next ==
  \/ \E d \in Drops : onDrop(d) /\ UNCHANGED widgets
  \/ \E pc \in PromoPieces : promoClick(pc) /\ UNCHANGED widgets
  \/ btnStart /\ UNCHANGED widgets
  \/ btnEnd /\ UNCHANGED widgets
  \/ btnPrev /\ UNCHANGED widgets
  \/ btnNext /\ UNCHANGED widgets
  \/ \E n \in rendered : gotoNode(n) /\ UNCHANGED widgets
  \/ btnPromote /\ UNCHANGED widgets
  \/ btnDelete /\ UNCHANGED widgets
  \/ btnUndo /\ UNCHANGED widgets

\* Comments are written by btnCommentSave alone and read by render alone:
\* no handler of Next looks at them.  Spec leaves the comment editor out,
\* SpecC is the whole page.
Spec == Init /\ [][Next]_allvars

NextC ==
  \/ Next
  \/ \E text \in CommentTexts : btnCommentSave(text) /\ UNCHANGED widgets

SpecC == Init /\ [][NextC]_allvars

\* ------------------------------------------- puzzle-engine.js: the engine
\* A puzzle position is the side to move of its FEN together with the moves
\* played since; a move is legal when its piece belongs to the side to move.
PuzzleFens  == {"w", "b"}                     \* a FEN, by its side-to-move field
EngineSans  == {"Qh5", "Qxf7#", "Nf6"}        \* mv.san as the engine writes it
LineSans    == {"Qh5", "Qxf7", "Nf6", "Zz9"}  \* tokens of a Moves: / PGN line; Zz9 is no move
PuzzleDrops == EngineSans \cup {BadDrop}      \* a drag, named by the move it makes

\* new Chess(fen)
NewChess(fen) == [fen |-> fen, hist |-> << >>]

\* game.turn()
GameTurn(g) ==
  IF Len(g.hist) % 2 = 0 THEN g.fen ELSE (IF g.fen = "w" THEN "b" ELSE "w")

\* normalizeSAN(san): san.replace(/[+#?!]/g, "")
normalizeSAN(san) == IF san = "Qxf7#" THEN "Qxf7" ELSE san

\* the side whose piece the move moves
Mover(san) ==
  CASE normalizeSAN(san) \in {"Qh5", "Qxf7"} -> "w"
    [] normalizeSAN(san) = "Nf6"             -> "b"
    [] OTHER                                 -> "none"

\* game.move(san, { sloppy: true }) / game.move({ from, to, promotion }):
\* the SAN of the move made, or NoSan (null, or an exception caught)
GameMove(g, san) ==
  IF Mover(san) # GameTurn(g) THEN NoSan
  ELSE IF normalizeSAN(san) = "Qxf7" THEN "Qxf7#" ELSE san

\* the game after a move the engine accepted
GameAfter(g, mv) == [g EXCEPT !.hist = Append(@, mv)]

\* the lines a puzzle can carry: at least one token
Lines(n) == UNION { [1..k -> LineSans] : k \in 1..n }

\* ------------------------------------- puzzle-engine.js: renderLocalPuzzle
MaxLine == 3           \* tokens in the solution line of a puzzle

\* the closure state of renderLocalPuzzle(container, fen, allMoves); timers
\* holds the san captured by each pending setTimeout callback
renderLocalPuzzle(fen, allMoves) ==
  [game |-> NewChess(fen), solverSide |-> GameTurn(NewChess(fen)),
   allMoves |-> allMoves, moveIndex |-> 0, solved |-> FALSE, lock |-> FALSE,
   feedback |-> "", timers |-> << >>]

\* showSolved(feedback) together with solved = true
markSolved(s) == [s EXCEPT !.solved = TRUE, !.feedback = "Solved"]

\* function autoOpponentReplyIfNeeded(), up to the setTimeout call
autoOpponentReplyIfNeeded(s) ==
  IF s.solved THEN s
  ELSE IF s.moveIndex >= Len(s.allMoves) THEN markSolved(s)
  ELSE IF GameTurn(s.game) = s.solverSide THEN s
  ELSE [s EXCEPT !.lock = TRUE,
                 !.timers = Append(@, s.allMoves[s.moveIndex + 1])]

\* the callback handed to setTimeout(.., 150), san being the token it captured
timerCallback(s, san) ==
  LET mv == GameMove(s.game, san)
  IN IF mv = NoSan
     THEN [markSolved(s) EXCEPT !.lock = FALSE]
     ELSE [s EXCEPT !.game = GameAfter(@, mv), !.moveIndex = @ + 1,
                    !.lock = FALSE]

\* a user move is taken for the expected one whatever it is
IsExpected_any(mv, expected) == TRUE

\* normalizeSAN(mv.san) === normalizeSAN(expected)
IsExpected(mv, expected) == normalizeSAN(mv) = normalizeSAN(expected)

\* function playUserMove(src, dst): the closure state it leaves
playUserMove(s, d) ==
  IF s.solved \/ s.lock THEN s
  ELSE IF GameTurn(s.game) # s.solverSide THEN s
  ELSE IF s.moveIndex >= Len(s.allMoves) THEN s
  ELSE LET expected == s.allMoves[s.moveIndex + 1]
           mv       == GameMove(s.game, d)
       IN IF mv = NoSan THEN s
          ELSE IF ~IsExpected(mv, expected)
          THEN [s EXCEPT !.feedback = "Wrong"]
          ELSE autoOpponentReplyIfNeeded(
                 [s EXCEPT !.game = GameAfter(@, mv), !.moveIndex = @ + 1,
                           !.feedback = "Correct"])

\* onDrop of the puzzle board
localOnDrop(d) ==
  /\ localPuzzle' = playUserMove(localPuzzle, d)
  /\ UNCHANGED << vars, remotePack, worksheet >>

\* the 150 ms of the oldest pending timer are over
localTimeout ==
  /\ localPuzzle.timers # << >>
  /\ localPuzzle' = [timerCallback(localPuzzle, Head(localPuzzle.timers))
                       EXCEPT !.timers = Tail(localPuzzle.timers)]
  /\ UNCHANGED << vars, remotePack, worksheet >>

\* a page with one <puzzle> block that carries FEN: and Moves:
InitLocal ==
  /\ InitEditor
  /\ remotePack = NoWidget
  /\ worksheet = NoWidget
  /\ \E fen \in PuzzleFens, allMoves \in Lines(MaxLine) :
        localPuzzle = renderLocalPuzzle(fen, allMoves)

NextLocal ==
  \/ \E d \in PuzzleDrops : localOnDrop(d)
  \/ localTimeout

SpecLocal == InitLocal /\ [][NextLocal]_allvars

\* the browser runs a timer callback once its delay is over
SpecLocalFair == SpecLocal /\ WF_allvars(localTimeout)

\* --------------------------------- puzzle-engine.js: initRemotePGNPackLazy
MaxPack == 2           \* puzzles in the fetched pack
MaxPackLine == 2       \* tokens in the line of a puzzle of the pack
MaxTimers == 2         \* the user makes no move that would leave more timers pending

\* what the .then callback pushes onto puzzles: { fen, all }
PackPuzzles == [fen : PuzzleFens, all : Lines(MaxPackLine)]

\* let game = null; let allMoves = null; let solverSide = null
NoGame == [fen |-> "-", hist |-> << >>]
NoLine == << >>
NoSide == "-"

\* the closure state while the pack is being fetched
packLoading(puzzles) ==
  [puzzles |-> puzzles, puzzleIndex |-> 0, game |-> NoGame, allMoves |-> NoLine,
   solverSide |-> NoSide, moveIndex |-> 0, solved |-> FALSE, lock |-> FALSE,
   feedback |-> "Loading", timers |-> << >>]

\* function loadPuzzle(i): the per-puzzle state is overwritten, a pending
\* timer is left alone
loadPuzzle(s, i) ==
  IF i < 0 \/ i >= Len(s.puzzles) THEN s
  ELSE [s EXCEPT !.puzzleIndex = i,
                 !.game = NewChess(s.puzzles[i + 1].fen),
                 !.allMoves = s.puzzles[i + 1].all,
                 !.solverSide = GameTurn(NewChess(s.puzzles[i + 1].fen)),
                 !.moveIndex = 0, !.solved = FALSE, !.lock = FALSE,
                 !.feedback = ""]

\* autoOpponentReplyIfNeeded() of the pack, up to the setTimeout call
packAutoOpponentReplyIfNeeded(s) ==
  IF s.solved \/ s.lock THEN s
  ELSE IF s.game = NoGame \/ s.allMoves = NoLine THEN s
  ELSE IF s.moveIndex >= Len(s.allMoves) THEN markSolved(s)
  ELSE IF GameTurn(s.game) = s.solverSide THEN s
  ELSE [s EXCEPT !.lock = TRUE,
                 !.timers = Append(@, s.allMoves[s.moveIndex + 1])]

\* the callback handed to setTimeout(.., 150) by the pack: it captured san
\* and reads game, moveIndex, solved and lock when it runs
packTimerCallback(s, san) ==
  LET mv == GameMove(s.game, san)
  IN IF mv = NoSan
     THEN [markSolved(s) EXCEPT !.lock = FALSE]
     ELSE [s EXCEPT !.game = GameAfter(@, mv), !.moveIndex = @ + 1,
                    !.lock = FALSE]

\* playUserMove(src, dst) of the pack
packPlayUserMove(s, d) ==
  IF s.solved \/ s.lock THEN s
  ELSE IF s.game = NoGame \/ s.allMoves = NoLine THEN s
  ELSE IF GameTurn(s.game) # s.solverSide THEN s
  ELSE IF s.moveIndex >= Len(s.allMoves) THEN s
  ELSE LET expected == s.allMoves[s.moveIndex + 1]
           mv       == GameMove(s.game, d)
       IN IF mv = NoSan THEN s
          ELSE IF ~IsExpected(mv, expected)
          THEN [s EXCEPT !.feedback = "Wrong"]
          ELSE packAutoOpponentReplyIfNeeded(
                 [s EXCEPT !.game = GameAfter(@, mv), !.moveIndex = @ + 1,
                           !.feedback = "Correct"])

\* onDrop of the board rebuilt by attachDropHandler
packOnDrop(d) ==
  /\ Len(packPlayUserMove(remotePack, d).timers) <= MaxTimers
  /\ remotePack' = packPlayUserMove(remotePack, d)
  /\ UNCHANGED << vars, localPuzzle, worksheet >>

\* the 150 ms of the oldest pending timer are over
packTimeout ==
  /\ remotePack.timers # << >>
  /\ remotePack' = [packTimerCallback(remotePack, Head(remotePack.timers))
                      EXCEPT !.timers = Tail(remotePack.timers)]
  /\ UNCHANGED << vars, localPuzzle, worksheet >>

\* prev.onclick
prevClick ==
  /\ remotePack' = loadPuzzle(remotePack, remotePack.puzzleIndex - 1)
  /\ UNCHANGED << vars, localPuzzle, worksheet >>

\* next.onclick
nextClick ==
  /\ remotePack' = loadPuzzle(remotePack, remotePack.puzzleIndex + 1)
  /\ UNCHANGED << vars, localPuzzle, worksheet >>

\* the pack has been fetched and split: loadPuzzle(0); attachDropHandler()
InitRemote ==
  /\ InitEditor
  /\ localPuzzle = NoWidget
  /\ worksheet = NoWidget
  /\ \E n \in 1..MaxPack :
        \E puzzles \in [1..n -> PackPuzzles] :
           remotePack = loadPuzzle(packLoading(puzzles), 0)

NextRemote ==
  \/ \E d \in PuzzleDrops : packOnDrop(d)
  \/ packTimeout
  \/ prevClick
  \/ nextClick

SpecRemote == InitRemote /\ [][NextRemote]_allvars

\* ------------------------------------------------ part_000: the worksheet
MaxPuzzles == 3        \* games in the fetched PGN text
MaxSheetLine == 3      \* tokens in the move line of a game, the first move included
PerPage == 2           \* boards on a page; the source shows 10, the page is scaled down

SheetSans  == {"Qh5", "Nf6"}
SheetDrops == SheetSans \cup {BadDrop}

\* the games of the fetched text, by what extractPuzzle reads of them: the
\* [FEN] tag and the tokens of the move line
SheetGames ==
  [fen : {"b"}, moves : UNION { [1..k -> SheetSans] : k \in 1..MaxSheetLine }]

\* function extractPuzzle(pgn): the first move is played on the start
\* position (a move the engine rejects is dropped all the same), the position
\* reached is the puzzle's, the other tokens are the solution
extractPuzzle(pgn) ==
  LET game  == NewChess(pgn.fen)
      mv    == GameMove(game, Head(pgn.moves))
      after == IF mv = NoSan THEN game ELSE GameAfter(game, mv)
  IN [fen |-> GameTurn(after), solution |-> Tail(pgn.moves),
      state |-> "new", playedMove |-> NoSan]

\* REPORT = { attempted: 0, correct: 0, wrong: 0, currentStreak: 0, ... }
NoReport ==
  [attempted |-> 0, correct |-> 0, wrong |-> 0, currentStreak |-> 0,
   bestStreak |-> 0, pagesCompleted |-> 0]

\* ws._puzzles.slice(start, end), by index
PageSlice(puzzles, page) ==
  { i \in 1..Len(puzzles) : page * PerPage < i /\ i <= page * PerPage + PerPage }

\* the boards renderPage(ws) builds: a fresh game on puzzle.fen for every
\* puzzle of the page, draggable when the puzzle is new
renderPage(puzzles, page) ==
  [i \in PageSlice(puzzles, page) |->
     [game |-> NewChess(puzzles[i].fen), disabled |-> puzzles[i].state # "new"]]

\* onDrop of a board of the page, as far as it concerns the puzzle and its
\* game: puzzle.solution.shift() consumes the solution
onDropPuzzle(p, game, d) ==
  LET move == GameMove(game, d)
  IN IF move = NoSan
     THEN [puzzle |-> p, game |-> game, result |-> "snapback"]
     ELSE IF p.solution = << >> \/ move # Head(p.solution)
     THEN [puzzle |-> [p EXCEPT !.state = "wrong", !.playedMove = move],
           game |-> game, result |-> "wrong"]
     ELSE [puzzle |-> [p EXCEPT !.solution = Tail(@), !.playedMove = move,
                                !.state = IF Tail(p.solution) = << >>
                                          THEN "solved" ELSE @],
           game |-> GameAfter(game, move),
           result |-> IF Tail(p.solution) = << >> THEN "solved" ELSE "correct"]

\* what onDrop does to REPORT
CountDrop(r, result) ==
  CASE result = "wrong" ->
         [r EXCEPT !.attempted = @ + 1, !.wrong = @ + 1, !.currentStreak = 0]
    [] result = "solved" ->
         [r EXCEPT !.attempted = @ + 1, !.correct = @ + 1,
                   !.currentStreak = @ + 1,
                   !.bestStreak = IF r.currentStreak + 1 > @
                                  THEN r.currentStreak + 1 ELSE @]
    [] OTHER -> r

\* a drag on board i of the page, which is not disabled, ends on a square
sheetOnDrop(i, d) ==
  /\ i \in DOMAIN worksheet.boards
  /\ ~worksheet.boards[i].disabled
  /\ LET r == onDropPuzzle(worksheet.puzzles[i], worksheet.boards[i].game, d)
     IN worksheet' =
          [worksheet EXCEPT
             !.puzzles[i] = r.puzzle,
             !.boards[i] = [game |-> r.game,
                            disabled |-> r.result \in {"wrong", "solved"}],
             !.REPORT = CountDrop(@, r.result)]
  /\ UNCHANGED << vars, localPuzzle, remotePack >>

\* nextBtn.onclick; the button is on the page when more puzzles follow and
\* is enabled by updateNextButton when every puzzle of the page is done
sheetNext ==
  /\ worksheet.page * PerPage + PerPage < Len(worksheet.puzzles)
  /\ \A i \in PageSlice(worksheet.puzzles, worksheet.page) :
        worksheet.puzzles[i].state \in {"solved", "wrong"}
  /\ worksheet' =
       [worksheet EXCEPT
          !.page = @ + 1,
          !.boards = renderPage(worksheet.puzzles, worksheet.page + 1)]
  /\ UNCHANGED << vars, localPuzzle, remotePack >>

\* function resetProgress(ws), the puzzles after it
ResetPuzzles(puzzles) ==
  [i \in 1..Len(puzzles) |->
     [puzzles[i] EXCEPT !.state = "new", !.playedMove = NoSan]]

\* resetBtn.onclick with the confirm dialog answered OK
resetProgress ==
  /\ worksheet' =
       [worksheet EXCEPT
          !.REPORT = NoReport,
          !.puzzles = ResetPuzzles(@),
          !.page = 0,
          !.boards = renderPage(ResetPuzzles(worksheet.puzzles), 0)]
  /\ UNCHANGED << vars, localPuzzle, remotePack >>

\* the text has been fetched with nothing in localStorage: splitPGN,
\* ws._page = 0, renderPage(ws); pgn keeps the fetched games
InitSheet ==
  /\ InitEditor
  /\ localPuzzle = NoWidget
  /\ remotePack = NoWidget
  /\ \E pgn \in [1..MaxPuzzles -> SheetGames] :
        LET puzzles == [i \in 1..MaxPuzzles |-> extractPuzzle(pgn[i])]
        IN worksheet = [pgn |-> pgn, puzzles |-> puzzles, page |-> 0,
                        REPORT |-> NoReport, boards |-> renderPage(puzzles, 0)]

NextSheet ==
  \/ \E i \in 1..MaxPuzzles, d \in SheetDrops : sheetOnDrop(i, d)
  \/ sheetNext
  \/ resetProgress

SpecSheet == InitSheet /\ [][NextSheet]_allvars

\* ------------------------------------------------------------- structure
\* n.next together with n.vars
Children(ns, n) == ({ns[n].next} \ {Null}) \cup Range(ns[n].vars)

RECURSIVE Closure(_, _)
Closure(ns, S) ==
  LET T == S \cup UNION { Children(ns, n) : n \in S }
  IN IF T = S THEN S ELSE Closure(ns, T)

\* the nodes reachable from root through next / vars links
Reachable(ns) == Closure(ns, {root})

\* an applyMove(san, ...) step: a legal piece drop, or a promotion choice
\* the engine accepts
AppliesMove(san) ==
  \/ \E d \in Drops :
        /\ ~IsPawnToLastRank(chess, d)
        /\ san = EngineMove(chess, d, "q")
        /\ onDrop(d)
  \/ \E pc \in PromoPieces :
        /\ san = EngineMove(chess, pendingPromotion, pc)
        /\ promoClick(pc)

\* ------------------------------------------------------------------ C1
\* C1: in every reachable state the cursor is a node that can be reached
\* from root through next / vars links, never a detached or deleted node.
C1_CursorInTree == cursor \in Reachable(nodes)

\* a subtree has been detached and the cursor stands on a variation
C1_Witness ==
  /\ Ids \ Reachable(nodes) # {}
  /\ cursor # root
  /\ cursor \in Range(nodes[nodes[cursor].parent].vars)

\* ------------------------------------------------------------------ C2
\* C2: for every node n, n.next, when non-null, is not an element of n.vars.
C2_MainlineNotInVars ==
  \A n \in Ids : nodes[n].next # Null => nodes[n].next \notin Range(nodes[n].vars)

\* a node with a mainline child and two variations, after an undo left its
\* record armed
C2_Witness ==
  \E n \in Ids : /\ nodes[n].next # Null
                 /\ Len(nodes[n].vars) >= 2
                 /\ undoAction.type = "promote"
                 /\ undoAction.parent = n

\* ------------------------------------------------------------------ C3
C3_OneRoot ==
  \A n \in Ids : /\ (nodes[n].parent = Null) = (n = root)
                 /\ (nodes[n].san = NoSan) = (n = root)

C3_ParentOwnsChild ==
  \A c \in Reachable(nodes) \ {root} :
     \A p \in Ids : (c \in Children(nodes, p)) = (p = nodes[c].parent)

C3_ParentFixed ==
  \A n \in Ids : nodes'[n].parent = nodes[n].parent

\* C3: there is exactly one root (san null, parent null); every other
\* reachable node c is a child (next or vars) of c.parent and of no other
\* node; and no step gives a node another parent.
C3_RootAndParents ==
  [](C3_OneRoot /\ C3_ParentOwnsChild) /\ [][C3_ParentFixed]_vars

\* an undo has put a node back under its parent, while a grandchild exists
C3_Witness ==
  /\ undoAction.type = "delete"
  /\ undoAction.node \in Range(nodes[undoAction.parent].vars)
  /\ \E c \in Reachable(nodes) : nodes[c].parent \notin {Null, root}

\* ------------------------------------------------------------------ C4
\* C4: the fen of every node other than root is the position the engine
\* gives for the node's san played in the parent's fen; every such san was
\* legal there.
C4_FenIsMoveOnParentFen ==
  \A n \in Ids \ {root} :
     /\ nodes[n].fen = EngineFen(nodes[nodes[n].parent].fen, nodes[n].san)
     /\ \E d \in Drops, pc \in PromoPieces :
           nodes[n].san = EngineMove(nodes[nodes[n].parent].fen, d, pc)

\* the promotion dialog is open, but the cursor has since been moved to a
\* node below root where the pawn move is legal, and a promoted node
\* already exists below root's child
C4_Witness ==
  /\ promoShown
  /\ board = chess
  /\ Len(chess) = 2
  /\ EngineMove(chess, pendingPromotion, "q") # NoSan
  /\ \E n \in Ids : nodes[n].san = "a8=Q" /\ Len(nodes[n].fen) = 3

\* ------------------------------------------------------------------ C5
C5_Step ==
  \A san \in SANS :
    (nodes[cursor].next = Null /\ AppliesMove(san)) =>
       /\ ID' = ID + 1
       /\ DOMAIN nodes' = DOMAIN nodes \cup {ID}
       /\ nodes'[ID].san = san
       /\ nodes'[ID].parent = cursor
       /\ nodes'[cursor].next = ID
       /\ nodes'[cursor].vars = nodes[cursor].vars
       /\ cursor' = ID
       /\ \A n \in Ids \ {cursor} : nodes'[n] = nodes[n]

\* C5 (P1): applyMove at a cursor without mainline child creates exactly
\* one node, makes it the cursor's next, leaves the cursor's vars alone and
\* moves the cursor to it.
C5_MainlineExtension == [][C5_Step]_vars

\* the cursor stands on the newest node, two plies deep, which is the only
\* child of its parent
C5_Witness ==
  /\ cursor = ID - 1
  /\ Len(nodes[cursor].fen) = 2
  /\ nodes[nodes[cursor].parent].next = cursor
  /\ nodes[nodes[cursor].parent].vars = << >>

\* ------------------------------------------------------------------ C6
C6_Step ==
  \A san \in SANS :
    ( /\ nodes[cursor].next # Null
      /\ nodes[nodes[cursor].next].san = san
      /\ AppliesMove(san) ) =>
       /\ cursor' = nodes[cursor].next
       /\ nodes' = nodes
       /\ ID' = ID

\* C6 (P2): applyMove with the san of cursor.next moves the cursor to that
\* node; no node is created and no field of any node changes.
C6_ReplayIdempotent == [][C6_Step]_vars

\* the cursor stands on a mainline child that has a child of its own and a
\* sibling variation: it was entered again after it had been created
C6_Witness ==
  /\ cursor # root
  /\ nodes[nodes[cursor].parent].next = cursor
  /\ nodes[cursor].next # Null
  /\ nodes[nodes[cursor].parent].vars # << >>
  /\ board = nodes[cursor].fen

\* ------------------------------------------------------------------ C7
C7_Step ==
  \A san \in SANS :
    ( /\ ID' = ID + 1
      /\ ID \in Range(nodes'[cursor].vars)
      /\ AppliesMove(san) ) =>
       /\ nodes'[cursor].next = nodes[cursor].next
       /\ nodes'[cursor].vars = Append(nodes[cursor].vars, ID)
       /\ Cardinality({ i \in 1..Len(nodes'[cursor].vars) :
                          nodes'[cursor].vars[i] = ID }) = 1

\* C7 (P3): when applyMove files the new node under the cursor's vars, the
\* cursor's next is unchanged and the new node is appended once, after the
\* old entries in their old order.
C7_VariationIsolation == [][C7_Step]_vars

\* the cursor stands on the newest node, which is the last of two
\* variations of its parent
C7_Witness ==
  /\ cursor = ID - 1
  /\ cursor # root
  /\ LET p == nodes[cursor].parent
     IN /\ nodes[p].next # Null
        /\ Len(nodes[p].vars) = 2
        /\ nodes[p].vars[2] = cursor
        /\ nodes[p].vars[1] # cursor

\* ------------------------------------------------------------------ C8
\* the two placements of a new node at a cursor that has a mainline child
C8_Demoted ==
  /\ nodes'[cursor].next = ID
  /\ nodes'[cursor].vars = Append(nodes[cursor].vars, nodes[cursor].next)

C8_Appended ==
  /\ nodes'[cursor].next = nodes[cursor].next
  /\ nodes'[cursor].vars = Append(nodes[cursor].vars, ID)

C8_Branches(san) ==
  /\ nodes[cursor].next # Null
  /\ nodes[nodes[cursor].next].san # san
  /\ AppliesMove(san)

\* C8 as claimed: the new node takes the mainline exactly when the move
\* applied is White's.
C8_WhiteMoveTakesMainline ==
  [][\A san \in SANS :
       C8_Branches(san) =>
         IF Turn(chess) = "w" THEN C8_Demoted ELSE C8_Appended]_vars

\* C8 amended: the new node takes the mainline, and the old mainline child
\* is appended to vars, exactly when the move applied is Black's (White is
\* to move afterwards); a new White move is appended to vars and next is
\* untouched.
C8_BlackMoveTakesMainline ==
  [][\A san \in SANS :
       C8_Branches(san) =>
         IF Turn(chess) = "b" THEN C8_Demoted ELSE C8_Appended]_vars

\* below root's child a second Black move has taken the mainline: the
\* cursor is the newest node, it is its parent's next, and the older
\* sibling sits in vars
C8_Witness ==
  /\ cursor = ID - 1
  /\ cursor # root
  /\ LET p == nodes[cursor].parent
     IN /\ Turn(nodes[p].fen) = "b"
        /\ nodes[p].next = cursor
        /\ Len(nodes[p].vars) = 1
        /\ nodes[p].vars[1] < cursor

\* ------------------------------------------------------------------ C9
C9_Step ==
  ( /\ btnPromote
    /\ cursor # root
    /\ nodes[nodes[cursor].parent].next # cursor ) =>
     LET v == cursor
         p == nodes[v].parent
         m == nodes[p].next
     IN /\ m # Null
        /\ nodes'[p].next = v
        /\ v \notin Range(nodes'[p].vars)
        /\ nodes'[p].vars = << m >> \o FilterOut(nodes[p].vars, v)
        /\ cursor' = v
        /\ DOMAIN nodes' = DOMAIN nodes
        /\ \A n \in Ids : /\ nodes'[n].san = nodes[n].san
                          /\ nodes'[n].fen = nodes[n].fen
                          /\ nodes'[n].comment = nodes[n].comment
                          /\ nodes'[n].parent = nodes[n].parent
        /\ \A n \in Ids \ {p} : /\ nodes'[n].next = nodes[n].next
                                /\ nodes'[n].vars = nodes[n].vars

\* C9: promote on a variation v of p makes v the next of p, takes v out of
\* p.vars, puts the old next of p in front of the remaining variations
\* (order kept), moves the cursor to v, and changes no san, fen, comment or
\* parent of any node and no children of any node but p.
C9_Promote == [][C9_Step]_vars

\* a promote has just run on a parent with two variations: its record is
\* armed, the promoted node is next and the cursor, the old next leads vars
C9_Witness ==
  /\ undoAction.type = "promote"
  /\ cursor = undoAction.node
  /\ LET p == undoAction.parent
     IN /\ nodes[p].next = cursor
        /\ Len(nodes[p].vars) = 2
        /\ nodes[p].vars[1] = undoAction.previousMain
        /\ \E n \in Ids : nodes[n].comment # ""

\* ----------------------------------------------------------------- C10
\* C10 (P4): for every variation v of a node p with mainline child m,
\* promote(v) leaves m a variation of p, and promote(m) after it gives
\* p.next = m and p.vars holding exactly the nodes it held at first; no
\* other node differs.
C10_PromoteRoundTrip ==
  \A v \in Reachable(nodes) \ {root} :
    LET p  == nodes[v].parent
        m  == nodes[p].next
    IN (m # v) =>
         LET t1 == PromoteTree(nodes, v)
             t2 == PromoteTree(t1, m)
         IN /\ m # Null
            /\ t1[p].next = v
            /\ m \in Range(t1[p].vars)
            /\ t2[p].next = m
            /\ Range(t2[p].vars) = Range(nodes[p].vars)
            /\ \A n \in Ids \ {p} : t2[n] = nodes[n]

\* a promote has run and its parent again holds a variation next to the
\* mainline child and a second variation
C10_Witness ==
  /\ undoAction.type = "promote"
  /\ Len(nodes[undoAction.parent].vars) = 2
  /\ nodes[undoAction.parent].vars[1] # nodes[undoAction.parent].vars[2]
  /\ nodes[undoAction.parent].next = undoAction.node

\* ------------------------------------------------------------------ C11
C11_Step ==
  ( /\ btnDelete
    /\ cursor # root
    /\ nodes[nodes[cursor].parent].next # cursor ) =>
     LET v == cursor
         p == nodes[v].parent
     IN /\ nodes'[p].vars = SelectSeq(nodes[p].vars, LAMBDA x : x # v)
        /\ nodes'[p].next = nodes[p].next
        /\ nodes'[p] = [nodes[p] EXCEPT !.vars = nodes'[p].vars]
        /\ \A n \in Ids \ {p} : nodes'[n] = nodes[n]
        /\ DOMAIN nodes' = DOMAIN nodes
        /\ cursor' = p

\* C11 (P5): delete on a variation v of p removes v from p.vars, keeps
\* p.next and the other variations in their order, writes no other field of
\* any node, and moves the cursor to p.
C11_DeleteSubtreeExclusive == [][C11_Step]_vars

\* a variation has been deleted from under the cursor while a sibling
\* variation and the mainline child stay in place
C11_Witness ==
  /\ undoAction.type = "delete"
  /\ cursor = undoAction.parent
  /\ undoAction.node \notin Range(nodes[cursor].vars)
  /\ nodes[cursor].vars # << >>
  /\ nodes[cursor].next # Null

\* ------------------------------------------------------------------ C12
C12_Step ==
  /\ (cursor = root /\ btnPrev) => UNCHANGED << cursor, nodes >>
  /\ (nodes[cursor].next = Null /\ btnNext) => UNCHANGED << cursor, nodes >>
  /\ btnEnd => /\ nodes' = nodes
               /\ cursor' \in Chain(nodes, root)
               /\ nodes[cursor'].next = Null

\* C12 (P6): prev at root and next at a node without mainline child change
\* neither the cursor nor the tree; end leaves the cursor on the node found
\* by following next from root until it is null, wherever the cursor was.
C12_NavigationBounded == [][C12_Step]_vars

\* the newest node lies in a variation, where applyMove had put the cursor,
\* and the cursor now stands on the tip of a mainline of two moves
C12_Witness ==
  /\ ID > 2
  /\ isVariation(nodes, ID - 1)
  /\ cursor \in Chain(nodes, root)
  /\ nodes[cursor].next = Null
  /\ Len(nodes[cursor].fen) = 2
  /\ board = nodes[cursor].fen

\* ------------------------------------------------------------------ C13
\* the subtree hanging from n
Subtree(ns, n) == Closure(ns, {n})

\* the step is an applyMove of a move that differs from cursor.next.san
C13_NewMove ==
  \E san \in SANS :
     /\ ~(nodes[cursor].next # Null /\ nodes[nodes[cursor].next].san = san)
     /\ AppliesMove(san)

\* R and R2 being the nodes reachable before and after the step: a step
\* after which more nodes are reachable is an applyMove of a new move, and
\* the one node gained is the node it constructed
C13_GainsByApplyMove(R, R2) ==
  (R2 \ R # {}) => (C13_NewMove /\ R2 = R \cup {ID})

\* ... or the undo of a delete, which hangs the deleted subtree back
C13_GainsByApplyMoveOrUndo(R, R2) ==
  (R2 \ R # {}) =>
     \/ C13_NewMove /\ R2 = R \cup {ID}
     \/ /\ btnUndo
        /\ undoAction.type = "delete"
        /\ R2 = R \cup Subtree(nodes, undoAction.node)

\* a step after which fewer nodes are reachable is a delete on a variation,
\* and the nodes lost are that variation's subtree
C13_LosesByDelete(R, R2) ==
  (R \ R2 # {}) =>
     /\ isVariation(nodes, cursor)
     /\ btnDelete
     /\ R2 = R \ Subtree(nodes, cursor)

\* every applyMove of a new move gains its node, every delete on a
\* variation loses the subtree
C13_ApplyAndDeleteAct(R, R2) ==
  /\ (ID' # ID) => R2 = R \cup {ID}
  /\ (isVariation(nodes, cursor) /\ btnDelete) =>
        R2 = R \ Subtree(nodes, cursor)

\* the comment handler, applied to the cursor of any state, leaves the
\* reachable set as it is
C13_CommentKeeps ==
  \A text \in CommentTexts :
     cursor # root =>
        Reachable(CommentTree(nodes, cursor, text)) = Reachable(nodes)

\* C13 as claimed: the reachable set grows only in applyMove, by the one
\* new node, and shrinks only in delete, by the deleted subtree; so undo,
\* like navigation, promote and comments, neither adds nor removes a node.
C13_UndoKeepsNodes ==
  [][ (nodes' # nodes) =>
         LET R  == Reachable(nodes)
             R2 == Reachable(nodes')
         IN /\ C13_GainsByApplyMove(R, R2)
            /\ C13_LosesByDelete(R, R2)
            /\ C13_ApplyAndDeleteAct(R, R2) ]_vars

\* C13 amended: the reachable set grows only in applyMove, by the one new
\* node, and in the undo of a delete, by the subtree the delete had removed;
\* it shrinks only in delete, by the deleted subtree.
C13_NodeLifecycle ==
  /\ []C13_CommentKeeps
  /\ [][ (nodes' # nodes) =>
            LET R  == Reachable(nodes)
                R2 == Reachable(nodes')
            IN /\ C13_GainsByApplyMoveOrUndo(R, R2)
               /\ C13_LosesByDelete(R, R2)
               /\ C13_ApplyAndDeleteAct(R, R2) ]_vars

\* an undo has put a deleted variation that has a child back under its
\* parent and the cursor on it
C13_Witness ==
  /\ undoAction.type = "delete"
  /\ cursor = undoAction.node
  /\ cursor \in Range(nodes[undoAction.parent].vars)
  /\ nodes[cursor].next # Null

\* ------------------------------------------------------------------ C14
\* C14: between two handlers the board widget shows, and the engine holds,
\* the position of the cursor node.
C14_BoardAndEngineAtCursor ==
  /\ chess = nodes[cursor].fen
  /\ board = nodes[cursor].fen

\* the promotion dialog has been answered with a piece the engine rejects
\* for the pending pawn drop: the dialog is closed and the board still
\* shows the pawn on the last rank
C14_Witness ==
  /\ ~promoShown
  /\ pendingPromotion = NoDrop
  /\ board # nodes[cursor].fen
  /\ chess = nodes[cursor].fen

\* ------------------------------------------------------------------ C15
\* C15: between two user events promote and delete are usable exactly when
\* the cursor is a variation (it has a parent whose next is another node),
\* and the comment control exactly when the cursor is not root.
C15_ControlsFollowCursor ==
  LET isVar == cursor # root /\ nodes[nodes[cursor].parent].next # cursor
  IN /\ buttons.promote = isVar
     /\ buttons.delete = isVar
     /\ buttons.comment = (cursor # root)

\* applyMove has put the cursor on a new variation and the promote and
\* delete controls are still off
C15_Witness ==
  /\ cursor = ID - 1
  /\ isVariation(nodes, cursor)
  /\ ~buttons.promote
  /\ ~buttons.delete

\* ------------------------------------------------------------------ C16
\* the move tokens of a token sequence
C16_MoveTokens(toks) == SelectSeq(toks, LAMBDA t : t.kind = "move")

\* C16: render() writes exactly one move token for every node other than
\* root that is reachable from root, and none for any other node.
C16_OneTokenPerNode ==
  LET out == C16_MoveTokens(render(moves, nodes, cursor))
  IN /\ \A n \in Reachable(nodes) \ {root} :
           Cardinality({ i \in 1..Len(out) : out[i].node = n }) = 1
     /\ \A i \in 1..Len(out) : out[i].node \in Reachable(nodes) \ {root}

\* render() has run on a tree that holds a mainline of two moves and a
\* variation, and #moves is empty
C16_Witness ==
  /\ moves = << >>
  /\ nodes[root].next # Null
  /\ nodes[nodes[root].next].next # Null
  /\ \E n \in Reachable(nodes) : isVariation(nodes, n)

\* ------------------------------------------------------------------ C17
\* the full-move number of the move that leads to node n
C17_MoveNo(ns, n) == (Len(ns[n].fen) + 1) \div 2

\* the move that leads to node n is White's
C17_IsWhiteMove(ns, n) == Len(ns[n].fen) % 2 = 1

\* token i of out is the number k followed by dots (and maybe a blank)
C17_Numbered(out, i, k, dots) ==
  /\ i >= 1
  /\ out[i].kind = "number"
  /\ out[i].text \in { ToString(k) \o dots, ToString(k) \o dots \o " " }

\* a comment or a variation group stands between move token i and the move
\* token before it
C17_Interrupted(out, i) ==
  \E j \in 1..(i - 1) :
     /\ out[j].kind \in {"comment", "variation"}
     /\ \A h \in (j + 1)..(i - 1) : out[h].kind # "move"

\* C17: in the mainline written by render() the k-th White move is preceded
\* by "k."; a Black move is preceded by "k..." exactly when a comment or a
\* variation group was written since the White move before it.
C17_MainlineNumbers ==
  LET out == render(moves, nodes, cursor)
  IN \A i \in 1..Len(out) :
        out[i].kind = "move" =>
           IF C17_IsWhiteMove(nodes, out[i].node)
           THEN C17_Numbered(out, i - 1, C17_MoveNo(nodes, out[i].node), ".")
           ELSE C17_Interrupted(out, i) =
                  C17_Numbered(out, i - 1, C17_MoveNo(nodes, out[i].node), "...")

\* render() has written a White move with a comment and the Black reply
\* behind it
C17_Witness ==
  \E i \in 1..Len(moves) :
     /\ i + 2 <= Len(moves)
     /\ moves[i].kind = "move"
     /\ C17_IsWhiteMove(nodes, moves[i].node)
     /\ moves[i + 1].kind = "comment"
     /\ moves[i + 2].kind = "move"

\* ------------------------------------------------------------------ C18
\* C18: for every variation v in the tree render() writes a group that
\* opens with "(N." when v is a White move and with "(N..." when it is
\* Black's, N being the full-move number of v, directly followed by the
\* move token of v without a second number.
C18_GroupPrefix ==
  LET out == render(moves, nodes, cursor)
  IN \A v \in Reachable(nodes) :
        isVariation(nodes, v) =>
           \E i \in 1..(Len(out) - 1) :
              /\ out[i].kind = "variation"
              /\ out[i].node = v
              /\ out[i].text \in
                    LET N    == ToString(C17_MoveNo(nodes, v))
                        dots == IF C17_IsWhiteMove(nodes, v) THEN "." ELSE "..."
                    IN { "(" \o N \o dots, "(" \o N \o dots \o " " }
              /\ out[i + 1].kind = "move"
              /\ out[i + 1].node = v

\* render() has run on a tree in which a Black move is a variation, and
\* has written no group
C18_Witness ==
  /\ \E v \in Reachable(nodes) :
        isVariation(nodes, v) /\ ~C17_IsWhiteMove(nodes, v)
  /\ \A i \in 1..Len(moves) : moves[i].kind # "variation"

\* ------------------------------------------------------------------ C19
\* the tokens toks show the comment txt directly behind the move token of
\* node n, or no comment token of n when txt is empty
C19_Shows(toks, n, txt) ==
  IF txt = ""
  THEN \A i \in 1..Len(toks) : ~(toks[i].kind = "comment" /\ toks[i].node = n)
  ELSE \E i \in 1..(Len(toks) - 1) :
          /\ toks[i].kind = "move"
          /\ toks[i].node = n
          /\ toks[i + 1] = CommentTok(n, "{" \o txt \o "} ")

\* C19: saving the comment editor on a cursor other than root replaces the
\* node's comment by the (trimmed) text, and the render that follows shows
\* the text directly behind the node's move token; an empty text clears the
\* comment and the render shows no comment token for the node.
C19_CommentShown ==
  [][\A text \in CommentTexts :
       (cursor # root /\ btnCommentSave(text)) =>
          /\ nodes'[cursor].comment = trim(text)
          /\ C19_Shows(moves', cursor, trim(text))]_vars

\* the cursor node carries a comment while the tree holds a variation
C19_Witness ==
  /\ cursor # root
  /\ nodes[cursor].comment # ""
  /\ RenderThrows(nodes)

C21_RenderTerminates ==
  RangeError \notin Range(renderSeq(nodes, cursor, nodes[root].next, 1, "w", FALSE))

\* applyMove has filed a second first move under root.vars, put the cursor
\* on it and called render(), which did not return
C21_Witness ==
  /\ nodes[root].next # Null
  /\ Len(nodes[root].vars) = 1
  /\ cursor = nodes[root].vars[1]
  /\ cursor = ID - 1
  /\ undoAction = NoUndo
  /\ renderVars(nodes, nodes[nodes[root].next].parent, 1, "w") = << RangeError >>

\* ------------------------------------------------------------------ C23
\* C23: in every reachable state no vars array holds the same node twice,
\* and a node's next is not also one of its vars: no node occurs more than
\* once among the children of its parent, whatever happened between a
\* promote or delete and the undo of it.
C23_NoDuplicateChildren ==
  \A p \in Ids :
     /\ \A i, j \in 1..Len(nodes[p].vars) :
           i # j => nodes[p].vars[i] # nodes[p].vars[j]
     /\ \A i \in 1..Len(nodes[p].vars) : nodes[p].vars[i] # nodes[p].next

\* undo has run on a promote record, twice: the record is still armed and
\* the promoted node leads the parent's vars two times
C23_Witness ==
  /\ undoAction.type = "promote"
  /\ cursor = undoAction.parent
  /\ nodes[cursor].next = undoAction.previousMain
  /\ Len(nodes[cursor].vars) = 2
  /\ nodes[cursor].vars[1] = undoAction.node
  /\ nodes[cursor].vars[2] = undoAction.node

\* ------------------------------------------------------------------ C24
\* C24: no two children of a node (its next together with its vars) carry
\* the same san: a move applied at a node that already has a variation with
\* that san does not get a second node.
C24_NoDuplicateMoveText ==
  \A p \in Ids :
     \A c1, c2 \in Children(nodes, p) :
        c1 # c2 => nodes[c1].san # nodes[c2].san

\* applyMove has just constructed a node under a cursor that already had a
\* variation with the same san, and filed it under vars as well
C24_Witness ==
  /\ cursor = ID - 1
  /\ cursor # root
  /\ LET p == nodes[cursor].parent
     IN /\ Len(nodes[p].vars) = 2
        /\ nodes[p].vars[2] = cursor
        /\ nodes[p].vars[1] # cursor
        /\ nodes[nodes[p].vars[1]].san = nodes[cursor].san
        /\ nodes[nodes[p].next].san # nodes[cursor].san

\* ------------------------------------------------------------------ C25
\* the record setUndo stores in btnPromote.onclick / btnDelete.onclick
C25_Record(type, ns, n) ==
  [type |-> type, parent |-> ns[n].parent, node |-> n,
   previousMain |-> IF type = "promote" THEN ns[ns[n].parent].next ELSE Null]

\* promote or delete on the variation v, undo pressed right after it: the
\* parent has its next and its vars back, and the cursor is where it was
C25_RoundTrip(type, v) ==
  LET p   == nodes[v].parent
      a   == C25_Record(type, nodes, v)
      t1  == IF type = "promote" THEN PromoteTree(nodes, v) ELSE DeleteTree(nodes, v)
      c1  == IF type = "promote" THEN v ELSE DeleteCursor(nodes, v)
      t2  == UndoTree(t1, a)
      c2  == UndoCursor(t1, a, c1)
  IN /\ t2[p].next = nodes[p].next
     /\ t2[p].vars = nodes[p].vars
     /\ c2 = v

C25_RoundTrips ==
  isVariation(nodes, cursor) =>
     /\ C25_RoundTrip("promote", cursor)
     /\ C25_RoundTrip("delete", cursor)

\* C25: undo pressed directly after a promote or a delete gives the parent
\* its next and its vars, in their order, and the cursor back as they were
\* before; an undo that acted has cleared its record, so that a second press
\* changes nothing.
C25_UndoRestores ==
  /\ []C25_RoundTrips
  /\ [][ /\ (undoAction # NoUndo /\ btnUndo) => undoAction' = NoUndo
         /\ (undoAction = NoUndo /\ btnUndo) => UNCHANGED << nodes, cursor >> ]_vars

\* undo has run on a promote record: the old mainline child is next again,
\* the promoted node is back in vars, the cursor stands on the parent and
\* not on the promoted node, and the record is still armed
C25_Witness ==
  /\ undoAction.type = "promote"
  /\ cursor = undoAction.parent
  /\ nodes[cursor].next = undoAction.previousMain
  /\ nodes[cursor].vars = << undoAction.node >>

\* ------------------------------------------------------------------ C27
\* a step that changes the tree, a comment, the cursor or the undo record is
\* not a step of a handler whose precondition fails
C27_Step ==
  \/ UNCHANGED << nodes, cursor, undoAction >>
  \/ /\ (cursor = root \/ nodes[nodes[cursor].parent].next = cursor)
           => ~btnPromote /\ ~btnDelete
     /\ cursor = root => \A text \in CommentTexts : ~btnCommentSave(text)

\* C27: the promote and the delete handler invoked while the cursor is root
\* or the mainline child of its parent, and the comment handler invoked at
\* root, return at once: no node field, no comment and not the cursor
\* change (and no undo record is taken).
C27_PreconditionNoOps == [][C27_Step]_vars

\* the cursor stands on a commented mainline child that has a sibling
\* variation, and no promote or delete has ever acted
C27_Witness ==
  /\ cursor # root
  /\ nodes[nodes[cursor].parent].next = cursor
  /\ nodes[nodes[cursor].parent].vars # << >>
  /\ nodes[cursor].comment # ""
  /\ undoAction = NoUndo

\* ------------------------------------------------------------------ C30
\* C30: in every reachable state a node with a non-empty vars array has a
\* mainline child: a variation always stands next to a mainline move.
C30_VariationsHaveMainline ==
  \A n \in Ids : nodes[n].vars # << >> => nodes[n].next # Null

\* undo has pushed a deleted variation back behind another variation of a
\* parent that kept its mainline child
C30_Witness ==
  /\ undoAction.type = "delete"
  /\ cursor = undoAction.node
  /\ LET p == undoAction.parent
     IN /\ nodes[p].next # Null
        /\ Len(nodes[p].vars) = 2
        /\ nodes[p].vars[2] = cursor
        /\ nodes[p].vars[1] # cursor

\* ------------------------------------------------------------------ C26
\* every token of the line has been played on the board, in its order
C26_AllPlayed ==
  /\ Len(localPuzzle.game.hist) = Len(localPuzzle.allMoves)
  /\ \A i \in 1..Len(localPuzzle.allMoves) :
        normalizeSAN(localPuzzle.game.hist[i]) = normalizeSAN(localPuzzle.allMoves[i])

C26_SolvedShown ==
  /\ localPuzzle.solved
  /\ localPuzzle.feedback = "Solved"

\* C26: whatever the length of the solution line, odd or even, once all
\* its moves have been played (the solver's by the user, the opponent's by
\* the reply timer) the puzzle becomes solved and shows "Solved".
C26_PuzzleSolves == C26_AllPlayed ~> C26_SolvedShown

\* the reply timer has played the last move of a line of two moves: no
\* timer is pending, the puzzle is unlocked and it is not solved
C26_Witness ==
  /\ C26_AllPlayed
  /\ Len(localPuzzle.allMoves) = 2
  /\ localPuzzle.moveIndex = 2
  /\ localPuzzle.timers = << >>
  /\ ~localPuzzle.lock
  /\ ~localPuzzle.solved

\* ------------------------------------------------------------------ C28
\* the moves on the board are the first moveIndex tokens of the line, and
\* at most one reply is pending, exactly while the puzzle is locked
C28_InOrder ==
  LET s == localPuzzle
  IN /\ Len(s.game.hist) = s.moveIndex
     /\ s.moveIndex <= Len(s.allMoves)
     /\ \A i \in 1..s.moveIndex :
           normalizeSAN(s.game.hist[i]) = normalizeSAN(s.allMoves[i])
     /\ Len(s.timers) <= 1
     /\ s.lock = (s.timers # << >>)

\* the drop d is one the claim wants rejected in the state s
C28_MustReject(s, d) ==
  \/ s.solved
  \/ s.lock
  \/ GameTurn(s.game) # s.solverSide
  \/ s.moveIndex >= Len(s.allMoves)
  \/ GameMove(s.game, d) = NoSan
  \/ normalizeSAN(GameMove(s.game, d)) # normalizeSAN(s.allMoves[s.moveIndex + 1])

\* the step plays one move of side `by` and advances moveIndex by one
C28_Plays(s, s2, by) ==
  /\ s2.moveIndex = s.moveIndex + 1
  /\ Len(s2.game.hist) = Len(s.game.hist) + 1
  /\ SubSeq(s2.game.hist, 1, Len(s.game.hist)) = s.game.hist
  /\ Mover(s2.game.hist[Len(s2.game.hist)]) = by
  /\ GameTurn(s.game) = by

C28_Step ==
  LET s      == localPuzzle
      s2     == localPuzzle'
      solver == s.solverSide
      other  == IF solver = "w" THEN "b" ELSE "w"
  IN /\ \A d \in PuzzleDrops :
           localOnDrop(d) =>
              IF C28_MustReject(s, d)
              THEN s2.moveIndex = s.moveIndex /\ s2.game = s.game
              ELSE C28_Plays(s, s2, solver)
     /\ localTimeout =>
           \/ s2.moveIndex = s.moveIndex /\ s2.game = s.game /\ s2.solved
           \/ C28_Plays(s, s2, other)
     /\ (Len(s2.timers) > Len(s.timers)) =>
           \E d \in PuzzleDrops : localOnDrop(d) /\ ~C28_MustReject(s, d)

\* C28: the moves of the line are consumed in order; a user drop plays a
\* move of the solver side or is rejected, a timer plays a move of the
\* other side, and a timer is set only by a correct user move, one at a
\* time; a drop is rejected, moveIndex and the game unchanged, while the
\* puzzle is solved or locked, when the solver is not to move and when the
\* move is not the expected one.
C28_TurnDiscipline == []C28_InOrder /\ [][C28_Step]_allvars

\* a line of three moves has been played to its end: the second move was
\* the engine's, and the puzzle is solved
C28_Witness ==
  /\ localPuzzle.moveIndex = 3
  /\ Len(localPuzzle.game.hist) = 3
  /\ Mover(localPuzzle.game.hist[2]) # localPuzzle.solverSide
  /\ localPuzzle.solved
  /\ localPuzzle.feedback = "Solved"

\* ------------------------------------------------------------------ C22
\* the loaded puzzle is as loadPuzzle left it
C22_Untouched(s) ==
  /\ s.moveIndex = 0
  /\ ~s.solved
  /\ s.game = NewChess(s.puzzles[s.puzzleIndex + 1].fen)

\* C22: a reply timer that was set for one puzzle changes nothing of a
\* puzzle loaded since: when it fires on a puzzle that prev / next has just
\* loaded, the puzzle still has moveIndex 0, is not solved and its game is
\* at the start position.
C22_StaleTimerHarmless ==
  [][(C22_Untouched(remotePack) /\ packTimeout) => C22_Untouched(remotePack')]_allvars

\* a puzzle on which no move was made shows "Solved"
C22_Witness ==
  /\ remotePack.moveIndex = 0
  /\ remotePack.game.hist = << >>
  /\ remotePack.solved
  /\ remotePack.feedback = "Solved"
  /\ remotePack.timers = << >>

\* RECURSIVE helper of C29: the moves of line dropped one after the other on
\* the board of puzzle p, from game on
RECURSIVE PlayLine(_, _, _)
PlayLine(p, game, line) ==
  IF line = << >> \/ p.state # "new" THEN p
  ELSE LET r == onDropPuzzle(p, game, Head(line))
       IN IF r.result = "snapback" THEN p
          ELSE PlayLine(r.puzzle, r.game, Tail(line))

\* the puzzle is marked solved when line is played on its fresh board
C29_SolvedBy(p, line) ==
  PlayLine(p, NewChess(p.fen), line).state = "solved"

\* C29: after a confirmed resetProgress every puzzle is new with no played
\* move, the page is 0, the report counters are zero, and every puzzle that
\* its original solution solved when the worksheet was loaded is solved by
\* that solution again
C29_Step ==
  resetProgress =>
    /\ worksheet'.page = 0
    /\ worksheet'.REPORT = NoReport
    /\ \A i \in 1..Len(worksheet'.puzzles) :
          /\ worksheet'.puzzles[i].state = "new"
          /\ worksheet'.puzzles[i].playedMove = NoSan
          /\ C29_SolvedBy(extractPuzzle(worksheet.pgn[i]),
                          extractPuzzle(worksheet.pgn[i]).solution)
               => C29_SolvedBy(worksheet'.puzzles[i],
                               extractPuzzle(worksheet.pgn[i]).solution)

C29_ResetRestores == [][C29_Step]_allvars

\* a worksheet right after a reset (all new, page 0, counters zero) where a
\* puzzle that its solution solved has lost that solution
C29_Witness ==
  /\ worksheet # NoWidget
  /\ worksheet.page = 0
  /\ worksheet.REPORT = NoReport
  /\ \A i \in 1..Len(worksheet.puzzles) :
        worksheet.puzzles[i].state = "new" /\ worksheet.puzzles[i].playedMove = NoSan
  /\ \E i \in 1..Len(worksheet.puzzles) :
        /\ C29_SolvedBy(extractPuzzle(worksheet.pgn[i]),
                        extractPuzzle(worksheet.pgn[i]).solution)
        /\ worksheet.puzzles[i].solution = << >>
        /\ ~C29_SolvedBy(worksheet.puzzles[i],
                         extractPuzzle(worksheet.pgn[i]).solution)

====
